---------------------------- MODULE Spec2Model ----------------------------
(***************************************************************************)
(* Model of BasicSourceLineResolver::Module                                *)
(* (src/processor/basic_source_line_resolver.cc): the symbol-file loader   *)
(* LoadMapFromMemory with the SymbolParseHelper record parsers, the        *)
(* lookups LookupAddress, FindCFIFrameInfo and FindWindowsFrameInfo over   *)
(* the loaded module, and the parameter recovery of LookupAddress          *)
(* (ReadFuncParams, EvaluateDwarfExpression).                              *)
(*                                                                         *)
(* The buffer is a sequence of bytes; a byte is a one-character string,    *)
(* the null byte is NUL.  Addresses are unsigned integers of AddrBits bits *)
(* (the code's uint64_t, scaled to a width TLC can enumerate): every       *)
(* arithmetic result on them is reduced modulo 2^AddrBits.                 *)
(*                                                                         *)
(* A value used several times is bound as the parameter of a local         *)
(* operator (LET Body(x) == ... IN Body(e)), so that e is written once.    *)
(***************************************************************************)
EXTENDS Integers, Sequences, FiniteSets, TLC

\* Width of MemAddr / uint64_t in the model.
AddrBits == 8
\* Longest input buffer of the general specification, in records.
MaxRecords == 3
\* Longest input buffer of the null-byte specification, in pieces.
MaxPieces == 5
\* How far around kMaxErrorsBeforeBailing the error counts of the
\* error-cap specification range.
CapSlack == 2
\* Longest location program of the evaluator specification, in operations.
MaxOps == 3
\* Most parameters of a function of the parameter specification.
MaxParams == 3

RECURSIVE Pow2(_)
Pow2(n) == IF n = 0 THEN 1 ELSE 2 * Pow2(n - 1)

Modulus == Pow2(AddrBits)
\* std::numeric_limits<unsigned long long>::max()
ULLONG_MAX == Modulus - 1
\* std::numeric_limits<long>::max()
LONG_MAX == Pow2(AddrBits - 1) - 1

Wrap(n) == n % Modulus

NUL == "NUL"
CR == "\r"
LF == "\n"
NULL == [null |-> TRUE]

kWhitespace == {" ", CR, LF}
kMaxErrorsPrinted == 5
kMaxErrorsBeforeBailing == 100

(***************************************************************************)
(* C library string functions, on a C string given as the sequence of its  *)
(* bytes before the terminator.                                            *)
(***************************************************************************)

\* First position >= i of s holding a byte outside D, Len(s)+1 if none.
RECURSIVE SkipDelims(_, _, _)
SkipDelims(s, D, i) ==
  IF i > Len(s) THEN Len(s) + 1
  ELSE IF s[i] \in D THEN SkipDelims(s, D, i + 1) ELSE i

\* First position >= i of s holding a byte of D, Len(s)+1 if none.
RECURSIVE FindDelim(_, _, _)
FindDelim(s, D, i) ==
  IF i > Len(s) THEN Len(s) + 1
  ELSE IF s[i] \in D THEN i ELSE FindDelim(s, D, i + 1)

\* strncmp(s, p, Len(p)) == 0
HasPrefix(s, p) == Len(s) >= Len(p) /\ SubSeq(s, 1, Len(p)) = p

\* The string from its byte i on.
From(s, i) == SubSeq(s, i, Len(s))

HexChars == <<"0", "1", "2", "3", "4", "5", "6", "7", "8", "9",
              "a", "b", "c", "d", "e", "f">>
HexUpper == <<"0", "1", "2", "3", "4", "5", "6", "7", "8", "9",
              "A", "B", "C", "D", "E", "F">>

DigitVal(c) ==
  IF \E i \in 1..16 : HexChars[i] = c
  THEN (CHOOSE i \in 1..16 : HexChars[i] = c) - 1
  ELSE IF \E i \in 1..16 : HexUpper[i] = c
       THEN (CHOOSE i \in 1..16 : HexUpper[i] = c) - 1
       ELSE 16

\* The digits of s from position i, in `base`: val is their value while it
\* stays <= limit and limit after that (over), next the first position not
\* consumed, any whether there was a digit.
RECURSIVE ScanDigits(_, _, _, _, _)
ScanDigits(s, i, base, limit, acc) ==
  IF i <= Len(s) /\ DigitVal(s[i]) < base
  THEN LET Step(v) ==
             ScanDigits(s, i + 1, base, limit,
               [val |-> IF acc.over \/ v > limit THEN limit ELSE v,
                over |-> acc.over \/ v > limit,
                any |-> TRUE, next |-> i + 1])
       IN Step(acc.val * base + DigitVal(s[i]))
  ELSE acc

\* Where the digits of s start: after leading white space and a sign.
NumberStart(s) ==
  LET Body(i0) == IF i0 <= Len(s) /\ s[i0] \in {"-", "+"} THEN i0 + 1 ELSE i0
  IN Body(SkipDelims(s, {" ", CR, LF}, 1))

IsNegative(s) == NumberStart(s) > 1 /\ s[NumberStart(s) - 1] = "-"

\* strtoull(s, &after_number, base): [val, after], after the
\* index of the first byte not consumed (1 when there is no digit).  On
\* overflow the value is ULLONG_MAX; a minus sign negates modulo 2^AddrBits.
strtoull(s, base) ==
  LET Body(d, neg) ==
        IF ~d.any THEN [val |-> 0, after |-> 1]
        ELSE [val |-> IF d.over THEN ULLONG_MAX
                      ELSE IF neg THEN Wrap(Modulus - d.val) ELSE d.val,
              after |-> d.next]
  IN Body(ScanDigits(s, NumberStart(s), base, ULLONG_MAX,
                     [val |-> 0, over |-> FALSE, any |-> FALSE, next |-> 1]),
          IsNegative(s))

\* strtoul(s, NULL, base), in an unsigned long as wide as MemAddr.
strtoul(s, base) == strtoull(s, base)

\* strtol(s, &after_number, base): as strtoull, in a signed long, clamped
\* to [-LONG_MAX-1, LONG_MAX].
strtol(s, base) ==
  LET Body(d, neg) ==
        IF ~d.any THEN [val |-> 0, after |-> 1]
        ELSE [val |-> IF neg THEN 0 - d.val ELSE d.val, after |-> d.next]
  IN Body(ScanDigits(s, NumberStart(s), base,
                     IF IsNegative(s) THEN LONG_MAX + 1 ELSE LONG_MAX,
                     [val |-> 0, over |-> FALSE, any |-> FALSE, next |-> 1]),
          IsNegative(s))

\* SymbolParseHelper::IsValidAfterNumber: the byte after the number is the
\* terminator or white space.
IsValidAfterNumber(s, after) == after > Len(s) \/ s[after] \in kWhitespace

\* !after_number || *after_number: the number does not end the string.
HasTrailing(s, n) == n.after <= Len(s)

(***************************************************************************)
(* Tokenize (processor/tokenize.h): up to max_tokens tokens of line, each  *)
(* of the first max_tokens - 1 ended by a run of separators, the last one  *)
(* the remainder of the line.                                              *)
(***************************************************************************)
RECURSIVE TokenizeFrom(_, _, _, _)
TokenizeFrom(s, D, remaining, i) ==
  LET Body(b) ==
        IF remaining = 0 \/ b > Len(s) THEN <<>>
        ELSE IF remaining = 1
          THEN <<SubSeq(s, b, FindDelim(s, {CR, LF}, b) - 1)>>
          ELSE LET Rest(e) ==
                     <<SubSeq(s, b, e - 1)>>
                       \o TokenizeFrom(s, D, remaining - 1, e + 1)
               IN Rest(FindDelim(s, D, b))
  IN Body(SkipDelims(s, IF remaining = 1 THEN D \cup {CR, LF} ELSE D, i))

Tokenize(line, separators, max_tokens) ==
  LET Body(t) == [tokens |-> t, ok |-> Len(t) = max_tokens]
  IN Body(TokenizeFrom(line, separators, max_tokens, 1))

\* Tokenize with max_tokens = std::numeric_limits<int>::max().
TokenizeAll(line, separators) ==
  TokenizeFrom(line, separators, Len(line) + 1, 1)

(***************************************************************************)
(* SymbolParseHelper: the record parsers.  Each takes the line (without    *)
(* its terminator) and returns a record whose ok field is the C++ return   *)
(* value and whose other fields are the out-parameters.                    *)
(***************************************************************************)
Fail == [ok |-> FALSE]

\* FILE <id> <filename>
SymbolParseHelper_ParseFile(file_line) ==
  LET Fields(t, n) ==
        IF ~IsValidAfterNumber(t[1], n.after) \/ n.val < 0 \/ n.val = LONG_MAX
        THEN Fail
        ELSE [ok |-> TRUE, index |-> n.val, filename |-> t[2]]
      Body(t) == IF ~t.ok THEN Fail
                 ELSE Fields(t.tokens, strtol(t.tokens[1], 10))
  IN Body(Tokenize(From(file_line, 6), kWhitespace, 2))

\* locValue1 / locValue2 of an operation: 0 when absent or malformed.
LocValue(locs, k) ==
  LET Body(n) == IF HasTrailing(locs[k], n) THEN 0 ELSE n.val
  IN IF Len(locs) < k THEN 0 ELSE Body(strtoull(locs[k], 16))

\* Lines 748-777: one operation <op>[:<v1>[:<v2>]] of a location expression.
ParseArgLoc(loc) ==
  LET Fields(locs, op) ==
        IF HasTrailing(locs[1], op) THEN Fail
        ELSE [ok |-> TRUE,
              ai |-> [op |-> op.val % 256, locValue1 |-> LocValue(locs, 2),
                      locValue2 |-> LocValue(locs, 3)]]
      Body(locs) == IF locs = <<>> THEN Fail
                    ELSE Fields(locs, strtoull(locs[1], 16))
  IN Body(Tokenize(loc, {":"}, 4).tokens)

\* Lines 746-778: the operations of a location expression.
RECURSIVE ParseArgLocs(_, _)
ParseArgLocs(loc_exp, j) ==
  LET Body(a, rest) ==
        IF ~a.ok \/ ~rest.ok THEN Fail
        ELSE [ok |-> TRUE, locs |-> <<a.ai>> \o rest.locs]
  IN IF j > Len(loc_exp) THEN [ok |-> TRUE, locs |-> <<>>]
     ELSE Body(ParseArgLoc(loc_exp[j]), ParseArgLocs(loc_exp, j + 1))

\* SymbolParseHelper::ParseFuncParam: the parameters parsed from pv[i..];
\* params is what has been pushed so far.  A parameter that does not split
\* in four, or an operation that does not parse, clears the list; an empty
\* location expression keeps what was pushed.
RECURSIVE ParseFuncParam(_, _, _)
ParseFuncParam(pv, i, params) ==
  LET Fields(args, ts, loc_exp, ls) ==
        IF loc_exp = <<>> THEN params
        ELSE IF ~ls.ok THEN <<>>
        ELSE ParseFuncParam(pv, i + 1, Append(params,
               [typeName |-> args[1],
                typeSize |-> IF HasTrailing(args[2], ts) THEN 0 ELSE ts.val,
                paramName |-> args[3],
                locs |-> ls.locs]))
      Locs(args, loc_exp) ==
        Fields(args, strtoull(args[2], 16), loc_exp, ParseArgLocs(loc_exp, 1))
      Body(args) ==
        IF ~args.ok THEN <<>>
        ELSE Locs(args.tokens, TokenizeAll(args.tokens[4], {"$"}))
  IN IF i > Len(pv) THEN params
     ELSE Body(Tokenize(pv[i], {"@"}, 4))

\* Lines 820-829: the parameters of a FUNC record with three segments.
FunctionParams(segments) ==
  LET Args(argsArray) ==
        IF ~argsArray.ok THEN <<>>
        ELSE ParseFuncParam(argsArray.tokens, 1, <<>>)
      Body(n) ==
        IF HasTrailing(segments[2], n) THEN <<>>
        ELSE Args(Tokenize(segments[3], {"#"}, n.val))
  IN IF Len(segments) # 3 THEN <<>>
     ELSE Body(strtoull(segments[2], 16))

\* FUNC <address> <size> <stack_param_size> <name> [# <n> # <params>]
SymbolParseHelper_ParseFunction(function_line) ==
  LET Fields(segments, t, a, s, p) ==
        IF ~IsValidAfterNumber(t[1], a.after) \/ a.val = ULLONG_MAX THEN Fail
        ELSE IF ~IsValidAfterNumber(t[2], s.after) \/ s.val = ULLONG_MAX
          THEN Fail
        ELSE IF ~IsValidAfterNumber(t[3], p.after) \/ p.val = LONG_MAX
                \/ p.val < 0
          THEN Fail
        ELSE [ok |-> TRUE, address |-> a.val, size |-> s.val,
              stack_param_size |-> p.val, name |-> t[4],
              params |-> FunctionParams(segments)]
      Tokens(segments, t) ==
        IF ~t.ok THEN Fail
        ELSE Fields(segments, t.tokens, strtoull(t.tokens[1], 16),
                    strtoull(t.tokens[2], 16), strtol(t.tokens[3], 16))
      Body(segments) ==
        IF segments = <<>> THEN Fail
        ELSE Tokens(segments, Tokenize(segments[1], kWhitespace, 4))
  IN Body(Tokenize(From(function_line, 6), {"#"}, 3).tokens)

\* <address> <size> <line number> <source file id>
SymbolParseHelper_ParseLine(line_line) ==
  LET Fields(t, a, s, l, f) ==
        IF ~IsValidAfterNumber(t[1], a.after) \/ a.val = ULLONG_MAX THEN Fail
        ELSE IF ~IsValidAfterNumber(t[2], s.after) \/ s.val = ULLONG_MAX
          THEN Fail
        ELSE IF ~IsValidAfterNumber(t[3], l.after) \/ l.val = LONG_MAX
          THEN Fail
        ELSE IF ~IsValidAfterNumber(t[4], f.after) \/ f.val < 0
                \/ f.val = LONG_MAX
          THEN Fail
        ELSE IF l.val < 0 THEN Fail
        ELSE [ok |-> TRUE, address |-> a.val, size |-> s.val,
              line_number |-> l.val, source_file |-> f.val]
      Body(t) ==
        IF ~t.ok THEN Fail
        ELSE Fields(t.tokens, strtoull(t.tokens[1], 16),
                    strtoull(t.tokens[2], 16), strtol(t.tokens[3], 10),
                    strtol(t.tokens[4], 10))
  IN Body(Tokenize(line_line, kWhitespace, 4))

\* PUBLIC <address> <stack_param_size> <name>
SymbolParseHelper_ParsePublicSymbol(public_line) ==
  LET Fields(t, a, p) ==
        IF ~IsValidAfterNumber(t[1], a.after) \/ a.val = ULLONG_MAX THEN Fail
        ELSE IF ~IsValidAfterNumber(t[2], p.after) \/ p.val = LONG_MAX
                \/ p.val < 0
          THEN Fail
        ELSE [ok |-> TRUE, address |-> a.val, stack_param_size |-> p.val,
              name |-> t[3]]
      Body(t) ==
        IF ~t.ok THEN Fail
        ELSE Fields(t.tokens, strtoull(t.tokens[1], 16),
                    strtol(t.tokens[2], 16))
  IN Body(Tokenize(From(public_line, 8), kWhitespace, 3))

(***************************************************************************)
(* The address-indexed containers of basic_source_line_resolver_types.h.   *)
(* A range map is the set of its entries [base, size, entry]; an address   *)
(* map and the delta map are sets of [key, entry], one per key.            *)
(***************************************************************************)
Covers(r, a) == r.base <= a /\ a < r.base + r.size

Inside(r, q) == q.base <= r.base /\ r.base + r.size <= q.base + q.size

Crosses(r, q) ==
  /\ r.base < q.base + q.size
  /\ q.base < r.base + r.size
  /\ ~Inside(r, q)
  /\ ~Inside(q, r)

\* StoreRange: no effect when the range is empty, wraps past the top of the
\* address space, repeats a stored range or crosses one.
StoreRange(map, base, size, entry) ==
  IF size = 0 \/ base + size > ULLONG_MAX THEN [ok |-> FALSE, map |-> map]
  ELSE IF \E q \in map :
            \/ q.base = base /\ q.size = size
            \/ Crosses([base |-> base, size |-> size], q)
    THEN [ok |-> FALSE, map |-> map]
  ELSE [ok |-> TRUE,
        map |-> map \cup {[base |-> base, size |-> size, entry |-> entry]}]

NotFound == [found |-> FALSE]

Found(r) == [found |-> TRUE, entry |-> r.entry, base |-> r.base, size |-> r.size]

Innermost(rs) ==
  IF rs = {} THEN NotFound
  ELSE Found(CHOOSE x \in rs : \A y \in rs : x.size <= y.size)

\* RetrieveRange: the innermost range covering address.
RetrieveRange(map, address) == Innermost({r \in map : Covers(r, address)})

\* RetrieveNearestRange: the innermost of the ranges with the greatest
\* base at or below address, whether or not it covers address.
RetrieveNearestRange(map, address) ==
  Innermost({r \in map : /\ r.base <= address
                         /\ \A q \in map : q.base <= address => q.base <= r.base})

\* AddressMap::Store: fails when the address is already taken.
Store(map, address, entry) ==
  IF \E e \in map : e.key = address THEN [ok |-> FALSE, map |-> map]
  ELSE [ok |-> TRUE, map |-> map \cup {[key |-> address, entry |-> entry]}]

\* AddressMap::Retrieve: the entry with the greatest address <= address.
Retrieve(map, address) ==
  LET Body(es) ==
        IF es = {} THEN NotFound
        ELSE LET Hit(e) == [found |-> TRUE, entry |-> e.entry, address |-> e.key]
             IN Hit(CHOOSE x \in es : TRUE)
  IN Body({e \in map : /\ e.key <= address
                       /\ \A y \in map : y.key <= address => y.key <= e.key})

\* std::map<MemAddr, string>::operator[] assignment.
MapAssign(map, key, entry) ==
  {e \in map : e.key # key} \cup {[key |-> key, entry |-> entry]}

\* The elements of a set of numbers, ascending.
RECURSIVE SortedKeys(_)
SortedKeys(ks) ==
  IF ks = {} THEN <<>>
  ELSE LET Body(k) == <<k>> \o SortedKeys(ks \ {k})
       IN Body(CHOOSE x \in ks : \A y \in ks : x <= y)

HasKey(map, key) == \E e \in map : e.key = key

EntryAt(map, key) == (CHOOSE e \in map : e.key = key).entry

(***************************************************************************)
(* BasicSourceLineResolver::Module: the record handlers.  m is the module  *)
(* under construction, a record of its containers and of the loader's      *)
(* cur_func and num_errors.                                                *)
(***************************************************************************)

\* One strtok_r call on s from position i: the token, the position e where
\* its terminator is written and the new save pointer.
StrTok(s, D, i) ==
  LET Ends(b, e) ==
        [found |-> b <= Len(s), e |-> e, token |-> SubSeq(s, b, e - 1),
         next |-> IF e < Len(s) THEN e + 1 ELSE Len(s) + 1]
      Body(b) == Ends(b, FindDelim(s, D, b))
  IN Body(SkipDelims(s, D, i))

\* Module::ParseFile
Module_ParseFile(m, file_line) ==
  LET Body(r) ==
        IF ~r.ok THEN [ok |-> FALSE, m |-> m]
        ELSE [ok |-> TRUE,
              m |-> [m EXCEPT !.files_ =
                       IF \E e \in @ : e.key = r.index THEN @
                       ELSE @ \cup {[key |-> r.index, entry |-> r.filename]}]]
  IN Body(SymbolParseHelper_ParseFile(file_line))

\* Module::ParseFunction: a new Function, or NULL.
Module_ParseFunction(function_line) ==
  LET Body(r) ==
        IF ~r.ok THEN NULL
        ELSE [name |-> r.name, address |-> r.address, size |-> r.size,
              parameter_size |-> r.stack_param_size, params |-> r.params,
              lines |-> {}]
  IN Body(SymbolParseHelper_ParseFunction(function_line))

\* Module::ParseLine: a new Line, or NULL.
Module_ParseLine(line_line) ==
  LET Body(r) ==
        IF ~r.ok THEN NULL
        ELSE [address |-> r.address, size |-> r.size,
              source_file_id |-> r.source_file, line |-> r.line_number]
  IN Body(SymbolParseHelper_ParseLine(line_line))

\* Lines 590-592 left out: every public symbol goes to the container.
DropsPublic_Never(address) == FALSE

\* Lines 590-592: a public symbol at address 0 is accepted and not stored.
DropsPublic(address) == address = 0

\* Module::ParsePublicSymbol
Module_ParsePublicSymbol(m, public_line) ==
  LET Stored(st) == [ok |-> st.ok, m |-> [m EXCEPT !.public_symbols_ = st.map]]
      Body(r) ==
        IF ~r.ok THEN [ok |-> FALSE, m |-> m]
        ELSE IF DropsPublic(r.address) THEN [ok |-> TRUE, m |-> m]
        ELSE Stored(Store(m.public_symbols_, r.address,
                          [name |-> r.name, address |-> r.address,
                           parameter_size |-> r.stack_param_size]))
  IN Body(SymbolParseHelper_ParsePublicSymbol(public_line))

\* Where the strtok_r calls that found the tokens ts wrote a terminator.
Terminators(s, ts) == {t.e : t \in {x \in ts : x.found /\ x.e <= Len(s)}}

\* Module::ParseCFIFrameInfo.  nuls: where its strtok_r calls write a
\* terminator into stack_info_line.
Module_ParseCFIFrameInfo(m, stack_info_line) ==
  LET Init_(t1, a, z, ir) ==
        IF ~a.found
          THEN [ok |-> FALSE, m |-> m, nuls |-> Terminators(stack_info_line, {t1})]
        ELSE IF ~z.found
          THEN [ok |-> FALSE, m |-> m,
                nuls |-> Terminators(stack_info_line, {t1, a})]
        ELSE IF ~ir.found
          THEN [ok |-> FALSE, m |-> m,
                nuls |-> Terminators(stack_info_line, {t1, a, z})]
        ELSE [ok |-> TRUE, nuls |-> Terminators(stack_info_line, {t1, a, z, ir}),
              m |-> [m EXCEPT !.cfi_initial_rules_ =
                       StoreRange(@, strtoul(a.token, 16).val,
                                  strtoul(z.token, 16).val, ir.token).map]]
      Init2(t1, a, z) ==
        Init_(t1, a, z, StrTok(stack_info_line, {CR, LF}, z.next))
      Init1(t1, a) == Init2(t1, a, StrTok(stack_info_line, {" ", CR, LF}, a.next))
      Delta(t1, dr) ==
        IF ~dr.found
          THEN [ok |-> FALSE, m |-> m, nuls |-> Terminators(stack_info_line, {t1})]
        ELSE [ok |-> TRUE, nuls |-> Terminators(stack_info_line, {t1, dr}),
              m |-> [m EXCEPT !.cfi_delta_rules_ =
                       MapAssign(@, strtoul(t1.token, 16).val, dr.token)]]
      Body(t1) ==
        IF ~t1.found THEN [ok |-> FALSE, m |-> m, nuls |-> {}]
        ELSE IF t1.token = <<"I", "N", "I", "T">>
          THEN Init1(t1, StrTok(stack_info_line, {" ", CR, LF}, t1.next))
        ELSE Delta(t1, StrTok(stack_info_line, {CR, LF}, t1.next))
  IN Body(StrTok(stack_info_line, {" ", CR, LF}, 1))

STACK_INFO_FPO == 0
STACK_INFO_FRAME_DATA == 4
STACK_INFO_LAST == 5
STACK_INFO_UNKNOWN == -1
VALID_NONE == 0
VALID_PARAMETER_SIZE == 1
VALID_ALL == -1

\* WindowsFrameInfo::ParseFromString (windows_frame_info.h): the carrier
\* of a STACK WIN record with its type, rva and code size, or NULL.
WindowsFrameInfo_ParseFromString(string) ==
  LET Fields(t, type) ==
        IF type < 0 \/ type > STACK_INFO_LAST - 1 THEN NULL
        ELSE [type |-> type, rva |-> strtoull(t[2], 16).val,
              code_size |-> strtoull(t[3], 16).val,
              info |-> [type_ |-> type, valid |-> VALID_ALL,
                        prolog_size |-> strtoull(t[4], 16).val,
                        epilog_size |-> strtoull(t[5], 16).val,
                        parameter_size |-> strtoull(t[6], 16).val,
                        saved_register_size |-> strtoull(t[7], 16).val,
                        local_size |-> strtoull(t[8], 16).val,
                        max_stack_size |-> strtoull(t[9], 16).val,
                        program_string |-> t[11]]]
      Body(t) == IF ~t.ok THEN NULL
                 ELSE Fields(t.tokens, strtol(t.tokens[1], 16).val)
  IN Body(Tokenize(string, {" ", CR, LF}, 11))

\* Module::ParseStackInfo.  beyond is the C string that follows the
\* line's terminator in the buffer: when the platform token runs to the
\* end of the line the code steps over the terminator and parses that.
\* over: the parse ran in beyond; nuls are then positions of beyond.
Module_ParseStackInfo(m, stack_info_line, beyond) ==
  LET Win(w, over) ==
        IF w = NULL THEN [ok |-> FALSE, m |-> m, nuls |-> {}, over |-> over]
        ELSE [ok |-> TRUE, nuls |-> {}, over |-> over,
              m |-> [m EXCEPT !.windows_frame_info_[w.type] =
                       StoreRange(@, w.rva, w.code_size, w.info).map]]
      Cfi(c, over) == [ok |-> c.ok, m |-> c.m, nuls |-> c.nuls, over |-> over]
      Platform(platform, rest, over) ==
        IF platform = <<"W", "I", "N">>
          THEN Win(WindowsFrameInfo_ParseFromString(rest), over)
        ELSE IF platform = <<"C", "F", "I">>
          THEN Cfi(Module_ParseCFIFrameInfo(m, rest), over)
        ELSE [ok |-> FALSE, m |-> m, nuls |-> {}, over |-> FALSE]
      Ends(b, e) ==
        Platform(SubSeq(stack_info_line, b, e - 1),
                 IF e > Len(stack_info_line) THEN beyond
                 ELSE From(stack_info_line, e + 1),
                 e > Len(stack_info_line))
      Body(b) == Ends(b, FindDelim(stack_info_line, kWhitespace, b))
  IN Body(SkipDelims(stack_info_line, {" "}, 7))

\* LogParseError: counts the error (the first kMaxErrorsPrinted are logged).
LogParseError(m) == [m EXCEPT !.num_errors = @ + 1]

\* cur_func->lines.StoreRange(...): cur_func shares its Function with the
\* entry of functions_ that holds it, if one does.
StoreLine(m, line) ==
  LET Body(f, g) ==
        [m EXCEPT !.cur_func.ptr = g,
                  !.functions_ =
                    IF m.cur_func.shared
                    THEN {IF r.base = f.address /\ r.size = f.size
                          THEN [r EXCEPT !.entry = g] ELSE r : r \in @}
                    ELSE @]
  IN Body(m.cur_func.ptr,
          [m.cur_func.ptr EXCEPT
             !.lines = StoreRange(@, line.address, line.size, line).map])

\* What a line handler leaves: the module, and the terminators a STACK
\* record's parse wrote past the end of the line.
Handled(m) == [m |-> m, nuls |-> {}, over |-> FALSE]

\* Lines 134-137.
OnFile(m, pf) == Handled(IF pf.ok THEN pf.m ELSE LogParseError(m))

\* Lines 138-141.
OnStack(ps) ==
  [m |-> IF ps.ok THEN ps.m ELSE LogParseError(ps.m),
   nuls |-> ps.nuls, over |-> ps.over]

\* Lines 142-151 with the previous function kept current when the new one
\* is refused by functions_.
OnFunc_KeepCurrent(m, fn) ==
  LET Stored(st) ==
        Handled([m EXCEPT !.cur_func = IF st.ok
                                       THEN [ptr |-> fn, shared |-> TRUE]
                                       ELSE @,
                          !.functions_ = st.map])
  IN IF fn = NULL THEN Handled(LogParseError([m EXCEPT !.cur_func = NULL]))
     ELSE Stored(StoreRange(m.functions_, fn.address, fn.size, fn))

\* Lines 142-151: the new function is the current one, stored or not.
OnFunc(m, fn) ==
  LET Stored(st) ==
        Handled([m EXCEPT !.cur_func = [ptr |-> fn, shared |-> st.ok],
                          !.functions_ = st.map])
  IN IF fn = NULL THEN Handled(LogParseError([m EXCEPT !.cur_func = NULL]))
     ELSE Stored(StoreRange(m.functions_, fn.address, fn.size, fn))

\* Lines 152-158.
OnPublic(pp) == Handled(IF pp.ok THEN pp.m ELSE LogParseError(pp.m))

\* Lines 170-182 with a line record that has no function passed over.
OnLine_Uncounted(m, buffer) ==
  LET Parsed(ln) == IF ln = NULL THEN Handled(LogParseError(m))
                    ELSE Handled(StoreLine(m, ln))
  IN IF m.cur_func = NULL THEN Handled(m)
     ELSE Parsed(Module_ParseLine(buffer))

\* Lines 170-182: a line record goes to the current function.
OnLine(m, buffer) ==
  LET Parsed(ln) == IF ln = NULL THEN Handled(LogParseError(m))
                    ELSE Handled(StoreLine(m, ln))
  IN IF m.cur_func = NULL THEN Handled(LogParseError(m))
     ELSE Parsed(Module_ParseLine(buffer))

\* The body of the loop of LoadMapFromMemory for one line (lines 134-183).
ProcessLine(m, buffer, beyond) ==
  IF HasPrefix(buffer, <<"F", "I", "L", "E", " ">>)
    THEN OnFile(m, Module_ParseFile(m, buffer))
  ELSE IF HasPrefix(buffer, <<"S", "T", "A", "C", "K", " ">>)
    THEN OnStack(Module_ParseStackInfo(m, buffer, beyond))
  ELSE IF HasPrefix(buffer, <<"F", "U", "N", "C", " ">>)
    THEN OnFunc(m, Module_ParseFunction(buffer))
  ELSE IF HasPrefix(buffer, <<"P", "U", "B", "L", "I", "C", " ">>)
    THEN OnPublic(Module_ParsePublicSymbol([m EXCEPT !.cur_func = NULL], buffer))
  ELSE IF HasPrefix(buffer, <<"M", "O", "D", "U", "L", "E", " ">>)
    THEN Handled(m)
  ELSE IF HasPrefix(buffer, <<"I", "N", "F", "O", " ">>)
    THEN Handled(m)
  ELSE OnLine(m, buffer)

(***************************************************************************)
(* State.  input is the buffer as the caller handed it over (it never      *)
(* changes); memory_buffer is the same memory as the loader rewrites it.   *)
(* pc is the loader's position; save_ptr, buffer, line_number, num_errors  *)
(* and cur_func are the locals of LoadMapFromMemory.  frame is the         *)
(* StackFrame of the lookup in flight, call the operation it was handed   *)
(* to and cfi_info what FindCFIFrameInfo returned for it, windows_info     *)
(* what FindWindowsFrameInfo returned.  memory is the MemoryRegion the     *)
(* caller hands to LookupAddress (NULL if it has none); evaluation holds   *)
(* the locals of a call of EvaluateDwarfExpression in progress.            *)
(***************************************************************************)
VARIABLES input, memory_buffer, pc, save_ptr, buffer, line_number,
          num_errors, cur_func, files_, functions_, public_symbols_,
          windows_frame_info_, cfi_initial_rules_, cfi_delta_rules_,
          is_corrupt_, result, frame, cfi_info, windows_info, call, memory,
          evaluation

loader == <<memory_buffer, pc, save_ptr, buffer, line_number, num_errors,
            cur_func, result>>
containers == <<files_, functions_, public_symbols_, windows_frame_info_,
                cfi_initial_rules_, cfi_delta_rules_>>
lookup == <<frame, cfi_info, windows_info, call, memory, evaluation>>
vars == <<input, loader, containers, is_corrupt_, lookup>>

\* The state after the Module's construction, about to load `in`, in a
\* process whose caller holds the memory view mem.
Constructed(in, mem) ==
  /\ input = in
  /\ memory_buffer = in
  /\ pc = "start"
  /\ save_ptr = 0
  /\ buffer = NULL
  /\ line_number = 0
  /\ num_errors = 0
  /\ cur_func = NULL
  /\ files_ = {}
  /\ functions_ = {}
  /\ public_symbols_ = {}
  /\ windows_frame_info_ = [t \in 0..(STACK_INFO_LAST - 1) |-> {}]
  /\ cfi_initial_rules_ = {}
  /\ cfi_delta_rules_ = {}
  /\ is_corrupt_ = FALSE
  /\ result = NULL
  /\ cfi_info = NULL
  /\ windows_info = NULL
  /\ call = "none"
  /\ memory = mem

\* The same with no memory view, no frame and no evaluation in progress.
InitWith(in) ==
  /\ Constructed(in, NULL)
  /\ frame = NULL
  /\ evaluation = NULL

(***************************************************************************)
(* LoadMapFromMemory                                                       *)
(***************************************************************************)
Returned(value) == [null |-> FALSE, value |-> value]

\* Lines 98-100: an empty buffer is an empty module.
Load_Empty ==
  /\ pc = "start"
  /\ Len(memory_buffer) = 0
  /\ pc' = "done"
  /\ result' = Returned(TRUE)
  /\ UNCHANGED <<input, memory_buffer, save_ptr, buffer, line_number,
                 num_errors, cur_func, containers, is_corrupt_, lookup>>

\* Lines 102-106: the last byte becomes the terminator.
Terminated(mem) == [mem EXCEPT ![Len(mem)] = NUL]

\* Lines 111-114 left out: the nulls at the end count as the others.
LastNullTerminator_None(mem, last) == last

\* Lines 111-114: last_null_terminator, from the last index down.
RECURSIVE LastNullTerminator(_, _)
LastNullTerminator(mem, last) ==
  IF last > 0 /\ mem[last] = NUL THEN LastNullTerminator(mem, last - 1)
  ELSE last

\* Line 117 with a line end written over the null byte.
Rewritten_AsLineEnd == LF

\* Line 117: what a null byte in the middle is rewritten to.
Rewritten == "_"

\* Lines 115-120: the bytes before last_null_terminator, nulls rewritten.
RewriteNulls(mem, last) ==
  [i \in 1..Len(mem) |-> IF i <= last /\ mem[i] = NUL THEN Rewritten
                         ELSE mem[i]]

\* Lines 102-126: terminate the buffer, rewrite the nulls in its middle
\* and count them as one error.
Load_Prepare ==
  /\ pc = "start"
  /\ Len(memory_buffer) > 0
  /\ LET Scan(t, last) ==
           /\ memory_buffer' = RewriteNulls(t, last)
           /\ num_errors' = IF \E i \in 1..last : t[i] = NUL
                            THEN num_errors + 1 ELSE num_errors
         Body(t) == Scan(t, LastNullTerminator(t, Len(t) - 1))
     IN Body(Terminated(memory_buffer))
  /\ pc' = "scan"
  /\ UNCHANGED <<input, save_ptr, buffer, line_number, cur_func, result,
                 containers, is_corrupt_, lookup>>

\* strtok_r(memory_buffer or NULL, "\r\n", &save_ptr) continuing at byte
\* i: the token [b, e) or NULL, the buffer with the token's terminator
\* written, and the new save pointer.
BufTok(mem, i) ==
  LET Ends(b, e) ==
        IF b > Len(mem) \/ mem[b] = NUL
        THEN [buffer |-> NULL, mem |-> mem, save_ptr |-> b]
        ELSE [buffer |-> [null |-> FALSE, b |-> b, e |-> e],
              mem |-> IF e <= Len(mem) THEN [mem EXCEPT ![e] = NUL] ELSE mem,
              save_ptr |-> IF e <= Len(mem) /\ mem[e] # NUL THEN e + 1 ELSE e]
      Body(b) == Ends(b, FindDelim(mem, {CR, LF, NUL}, b))
  IN Body(SkipDelims(mem, {CR, LF}, i))

\* Lines 128-129: the first line.
Load_FirstToken ==
  /\ pc = "scan"
  /\ LET Body(t) ==
           /\ buffer' = t.buffer
           /\ memory_buffer' = t.mem
           /\ save_ptr' = t.save_ptr
     IN Body(BufTok(memory_buffer, 1))
  /\ pc' = "loop"
  /\ UNCHANGED <<input, line_number, num_errors, cur_func, result,
                 containers, is_corrupt_, lookup>>

\* The C string that starts at byte i of mem.
CString(mem, i) == SubSeq(mem, i, FindDelim(mem, {NUL}, i) - 1)

\* Line 184 with >= for >: the loop left upon the error that reaches
\* kMaxErrorsBeforeBailing.
TooManyErrors_AtCap(n) == n >= kMaxErrorsBeforeBailing

\* Line 184.
TooManyErrors(n) == n > kMaxErrorsBeforeBailing

\* The module under construction, as the handlers take it.
UnderConstruction ==
  [files_ |-> files_, functions_ |-> functions_,
   public_symbols_ |-> public_symbols_,
   windows_frame_info_ |-> windows_frame_info_,
   cfi_initial_rules_ |-> cfi_initial_rules_,
   cfi_delta_rules_ |-> cfi_delta_rules_,
   cur_func |-> cur_func, num_errors |-> num_errors]

\* Lines 131-189: one turn of the loop: the line is handled, then either
\* the loop is left on too many errors or the next line is taken.  A STACK
\* record that ends with its platform token is parsed from the bytes after
\* the line's terminator; past the end of the buffer those bytes are not
\* the program's, and the parse may end either way.
Load_Line ==
  /\ pc = "loop"
  /\ buffer # NULL
  /\ LET Advance(n, mem, t) ==
           /\ files_' = n.files_
           /\ functions_' = n.functions_
           /\ public_symbols_' = n.public_symbols_
           /\ windows_frame_info_' = n.windows_frame_info_
           /\ cfi_initial_rules_' = n.cfi_initial_rules_
           /\ cfi_delta_rules_' = n.cfi_delta_rules_
           /\ cur_func' = n.cur_func
           /\ num_errors' = n.num_errors
           /\ IF TooManyErrors(n.num_errors)
              THEN /\ pc' = "bail"
                   /\ memory_buffer' = mem
                   /\ UNCHANGED <<buffer, save_ptr>>
              ELSE /\ pc' = "loop"
                   /\ memory_buffer' = t.mem
                   /\ buffer' = t.buffer
                   /\ save_ptr' = t.save_ptr
         Written(n, mem) == Advance(n, mem, BufTok(mem, save_ptr))
         Body(r, outside) ==
           \E ub \in IF r.over /\ outside THEN BOOLEAN ELSE {TRUE} :
             Written(IF r.over /\ outside
                     THEN (IF ub THEN UnderConstruction
                           ELSE LogParseError(UnderConstruction))
                     ELSE r.m,
                     IF r.over /\ ~outside
                     THEN [i \in 1..Len(memory_buffer) |->
                             IF (i - buffer.e) \in r.nuls THEN NUL
                             ELSE memory_buffer[i]]
                     ELSE memory_buffer)
     IN Body(ProcessLine(UnderConstruction,
                         SubSeq(memory_buffer, buffer.b, buffer.e - 1),
                         IF buffer.e + 1 > Len(memory_buffer) THEN <<>>
                         ELSE CString(memory_buffer, buffer.e + 1)),
             buffer.e + 1 > Len(memory_buffer))
  /\ line_number' = line_number + 1
  /\ UNCHANGED <<input, result, is_corrupt_, lookup>>

\* Line 193 with a first error forgiven.
IsCorrupt_Many(n) == n > 1

\* Line 193.
IsCorrupt(n) == n > 0

\* Lines 191-194: after the loop.
Load_Finish ==
  /\ (pc = "bail" \/ (pc = "loop" /\ buffer = NULL))
  /\ is_corrupt_' = IsCorrupt(num_errors)
  /\ result' = Returned(TRUE)
  /\ pc' = "done"
  /\ UNCHANGED <<input, memory_buffer, save_ptr, buffer, line_number,
                 num_errors, cur_func, containers, lookup>>

(***************************************************************************)
(* EvaluateDwarfExpression and ReadFuncParams.  Values are uint64_t, here  *)
(* AddrBits wide.                                                          *)
(***************************************************************************)
\* DWARF operation codes (common/dwarf/dwarf2enums.h); DW_OP.addr is
\* DW_OP_addr.
DW_OP ==
  [addr |-> 3, deref |-> 6, const1u |-> 8, const1s |-> 9, const2u |-> 10,
   const2s |-> 11, const4u |-> 12, const4s |-> 13, const8u |-> 14,
   const8s |-> 15, dup |-> 18, drop |-> 19, over |-> 20, pick |-> 21,
   swap |-> 22, rot |-> 23, xderef |-> 24, plus |-> 34, lit0 |-> 48,
   lit31 |-> 79, reg0 |-> 80, reg31 |-> 111, breg0 |-> 112, breg31 |-> 143,
   regX |-> 144, fbreg |-> 145, deref_size |-> 148, xderef_size |-> 149,
   nop |-> 150]

\* The registers of the frame's context and its frame base: register 0
\* holds 0, registers 1 and 2 hold addresses.
FrameBase == 64
Registers ==
  [r \in 0..31 |-> IF r = 0 THEN 0 ELSE IF r = 1 THEN 64
                   ELSE IF r = 2 THEN 72 ELSE 200]

\* StackFrame::GetFrameBase and StackFrame::GetRegValue.
GetFrameBase(fr) == fr.frame_base
GetRegValue(fr, index) ==
  IF index \in DOMAIN fr.regs THEN fr.regs[index] ELSE 0

\* MemoryRegion::GetMemoryAtAddress(address, &value): whether the word at
\* address can be read, and the word.
GetMemoryAtAddress(mem, address) ==
  IF address \in DOMAIN mem.words
  THEN [ok |-> TRUE, value |-> mem.words[address]]
  ELSE [ok |-> FALSE, value |-> 0]

\* (uint64_t) of a signed integer of the given width holding the low bits
\* of v (char, short, int; plain char signed).
SignExtend(v, bits) ==
  LET Body(low) ==
        IF bits >= AddrBits THEN Wrap(low)
        ELSE IF low >= Pow2(bits - 1) THEN Wrap(low - Pow2(bits) + Modulus)
        ELSE low
  IN Body(v % Pow2(bits))

\* The locals of EvaluateDwarfExpression: the stack s and val; returned
\* once a `return 0` of the loop was taken.
Locals(s, val) == [s |-> s, val |-> val, returned |-> FALSE]

\* Lines 215-319: the chain of tests on one operation.  An operation that
\* matches no test leaves the locals alone.
Operation(fr, mem, e, ai, op, n) ==
  LET Return0 == [e EXCEPT !.returned = TRUE]
      Read(popped, word) ==
        IF ~word.ok THEN Return0
        ELSE [e EXCEPT !.s = popped, !.val = word.value]
  IN IF op >= DW_OP.reg0 /\ op <= DW_OP.reg31
       THEN [e EXCEPT !.val = GetRegValue(fr, op - DW_OP.reg0)]
     ELSE IF op = DW_OP.fbreg
       THEN [e EXCEPT !.val = Wrap(GetFrameBase(fr) + ai.locValue1)]
     ELSE IF op = DW_OP.addr THEN [e EXCEPT !.val = ai.locValue1]
     ELSE IF op = DW_OP.regX
       THEN [e EXCEPT !.val = GetRegValue(fr, ai.locValue1)]
     ELSE IF op >= DW_OP.breg0 /\ op <= DW_OP.breg31
       THEN [e EXCEPT !.val = Wrap(GetRegValue(fr, op - DW_OP.breg0)
                                     + ai.locValue1)]
     ELSE IF op = DW_OP.deref
       THEN IF n = 0 THEN Return0
            ELSE Read(SubSeq(e.s, 1, n - 1), GetMemoryAtAddress(mem, e.s[n]))
     ELSE IF op >= DW_OP.lit0 /\ op <= DW_OP.lit31
       THEN [e EXCEPT !.val = op - DW_OP.lit0]
     ELSE IF op \in {DW_OP.const1u, DW_OP.const2u, DW_OP.const4u,
                     DW_OP.const8u}
       THEN [e EXCEPT !.val = ai.locValue1]
     ELSE IF op = DW_OP.const1s
       THEN [e EXCEPT !.val = SignExtend(ai.locValue1, 8)]
     ELSE IF op = DW_OP.const2s
       THEN [e EXCEPT !.val = SignExtend(ai.locValue1, 16)]
     ELSE IF op = DW_OP.const4s
       THEN [e EXCEPT !.val = SignExtend(ai.locValue1, 32)]
     ELSE IF op = DW_OP.const8s THEN [e EXCEPT !.val = ai.locValue1]
     ELSE IF op = DW_OP.dup
       THEN IF n = 0 THEN Return0 ELSE [e EXCEPT !.s = Append(@, @[n])]
     ELSE IF op = DW_OP.drop
       THEN IF n = 0 THEN Return0 ELSE [e EXCEPT !.s = SubSeq(@, 1, n - 1)]
     ELSE IF op = DW_OP.pick
       THEN IF n = 0 THEN Return0
            ELSE IF n - 1 < ai.locValue1 THEN Return0
            ELSE [e EXCEPT !.s = Append(@, @[n - ai.locValue1])]
     ELSE IF op = DW_OP.over
       THEN IF n < 2 THEN Return0 ELSE [e EXCEPT !.s = Append(@, @[n - 1])]
     ELSE IF op = DW_OP.swap
       THEN IF n < 2 THEN Return0
            ELSE [e EXCEPT !.s = [@ EXCEPT ![n] = e.s[n - 1],
                                           ![n - 1] = e.s[n]]]
     ELSE IF op = DW_OP.rot
       THEN IF n < 3 THEN Return0
            ELSE [e EXCEPT !.s = [@ EXCEPT ![n - 2] = e.s[n],
                                           ![n - 1] = e.s[n - 2],
                                           ![n] = e.s[n - 1]]]
     ELSE IF op \in {DW_OP.deref_size, DW_OP.xderef, DW_OP.xderef_size}
       THEN Return0
     ELSE e

\* Lines 212-321: one iteration of the loop: the operation, then
\* s.push_back(val), whatever the operation was.
Iteration(fr, mem, e, ai) ==
  LET Push(r) == IF r.returned THEN r
                 ELSE [r EXCEPT !.s = Append(@, r.val)]
  IN Push(Operation(fr, mem, e, ai, ai.op, Len(e.s)))

\* Lines 324-326: the value returned once the loop is through.
Top(e) == IF e.s # <<>> THEN e.s[Len(e.s)] ELSE 0

\* The loop from operation i on.
RECURSIVE Evaluate(_, _, _, _, _)
Evaluate(fr, mem, loc, i, e) ==
  LET Body(r) == IF r.returned THEN 0
                 ELSE Evaluate(fr, mem, loc, i + 1, r)
  IN IF i > Len(loc) THEN Top(e)
     ELSE Body(Iteration(fr, mem, e, loc[i]))

\* EvaluateDwarfExpression(frame, memory, loc).  val is declared without a
\* value (line 209); indeterminate is what it holds until an operation
\* assigns it.
EvaluateDwarfExpression(fr, mem, loc, indeterminate) ==
  Evaluate(fr, mem, loc, 1, Locals(<<>>, indeterminate))

\* typeName.find(c) != string::npos, for a one-character c.
Finds(typeName, c) == \E k \in 1..Len(typeName) : typeName[k] = c

\* typeName.find(word) != string::npos.
FindsWord(typeName, word) ==
  \E k \in 1..(Len(typeName) - Len(word) + 1) :
    SubSeq(typeName, k, k + Len(word) - 1) = word

\* Lines 363-409: what is written to param.value for the word read at
\* addr: how the word is shown (if it is), and the word, masked to
\* typeSize bytes where it is shown in hex.  The byte dump that follows
\* is left out.
ParamValue(typeName, typeSize, value) ==
  IF typeSize % 2 = 0 /\ typeSize <= 8
  THEN IF Finds(typeName, "*") \/ Finds(typeName, "&")
         THEN [shown |-> "pointer", word |-> value]
       ELSE IF FindsWord(typeName, <<"f", "l", "o", "a", "t">>)
         THEN [shown |-> "float", word |-> value]
       ELSE IF FindsWord(typeName, <<"d", "o", "u", "b", "l", "e">>)
         THEN [shown |-> "double", word |-> value]
       ELSE [shown |-> "hex",
             word |-> IF 8 * typeSize >= AddrBits THEN value
                      ELSE value % Pow2(8 * typeSize)]
  ELSE [shown |-> "bytes", word |-> value]

\* Lines 337-411: the loop of ReadFuncParams from parameter i on, info
\* being what was pushed so far.
RECURSIVE ReadFrom(_, _, _, _, _, _)
ReadFrom(fr, params, mem, info, i, indeterminate) ==
  LET param(value) ==
        [typeName |-> params[i].typeName, typeSize |-> params[i].typeSize,
         paramName |-> params[i].paramName, value |-> value]
      Read(word) ==
        IF ~word.ok THEN info
        ELSE ReadFrom(fr, params, mem,
                      Append(info, param(ParamValue(params[i].typeName,
                                                    params[i].typeSize,
                                                    word.value))),
                      i + 1, indeterminate)
      Body(addr) ==
        IF addr = 0
        THEN ReadFrom(fr, params, mem, info, i + 1, indeterminate)
        ELSE Read(GetMemoryAtAddress(mem, addr))
  IN IF i > Len(params) THEN info
     ELSE IF params[i].typeSize <= 0
       THEN ReadFrom(fr, params, mem, Append(info, param(NULL)), i + 1,
                     indeterminate)
     ELSE Body(EvaluateDwarfExpression(fr, mem, params[i].locs,
                                       indeterminate))

\* ReadFuncParams(frame, params, memory, info): info as the call leaves
\* it.
ReadFuncParams(fr, params, mem, info, indeterminate) ==
  IF mem = NULL \/ params = <<>> THEN info
  ELSE ReadFrom(fr, params, mem, <<>>, 1, indeterminate)

(***************************************************************************)
(* Lookups on the loaded module.                                           *)
(***************************************************************************)

\* A fresh StackFrame for `instruction` in the module loaded at `base`.
NewFrame(instruction, base) ==
  [null |-> FALSE, instruction |-> instruction, module_base |-> base,
   function_name |-> <<>>, function_base |-> 0, source_file_name |-> <<>>,
   source_line |-> 0, source_line_base |-> 0, params |-> <<>>,
   frame_base |-> FrameBase, regs |-> Registers]

\* frame->instruction - frame->module->base_address()
ModuleRelative(fr) == Wrap(fr.instruction - fr.module_base + Modulus)

\* Lines 429-430 with the range closed at its end.
InFunction_Closed(address, function_base, function_size) ==
  /\ address >= function_base
  /\ (address - function_base) % Modulus <= function_size

\* Lines 429-430 (and 486): the overflow-friendly range comparison.
InFunction(address, function_base, function_size) ==
  /\ address >= function_base
  /\ Wrap(address - function_base + Modulus) < function_size

\* Line 449 with >= for >: a public symbol at the base of the nearest
\* function taken.
PublicApplies_NonStrict(func, public_address) ==
  ~func.found \/ public_address >= func.base

\* Line 449 (and 497): the nearest function bounds the public symbol.
PublicApplies(func, public_address) ==
  ~func.found \/ public_address > func.base

\* Lines 437-446: the line of the function that covers address.
WithLine(fr, line) ==
  IF line.found
  THEN [fr EXCEPT
          !.source_file_name =
             IF HasKey(files_, line.entry.source_file_id)
             THEN EntryAt(files_, line.entry.source_file_id) ELSE @,
          !.source_line = line.entry.line,
          !.source_line_base = Wrap(fr.module_base + line.base)]
  ELSE fr

\* Module::LookupAddress(memory, frame): the frame as the call leaves it.
LookupAddress(mem, fr, indeterminate) ==
  LET Public(public_symbol, func) ==
        IF public_symbol.found /\ PublicApplies(func, public_symbol.address)
        THEN [fr EXCEPT
                !.function_name = public_symbol.entry.name,
                !.function_base = Wrap(fr.module_base + public_symbol.address)]
        ELSE fr
      Body(address, func) ==
        IF func.found /\ InFunction(address, func.base, func.size)
        THEN WithLine([fr EXCEPT
                         !.function_name = func.entry.name,
                         !.function_base = Wrap(fr.module_base + func.base),
                         !.params = ReadFuncParams(fr, func.entry.params,
                                                   mem, @, indeterminate)],
                      RetrieveRange(func.entry.lines, address))
        ELSE Public(Retrieve(public_symbols_, address), func)
      At(address) == Body(address, RetrieveNearestRange(functions_, address))
  IN At(ModuleRelative(fr))

\* CFIRuleParser::Parse (cfi_frame_info.cc): a rule set is a sequence of
\* "<name>: <expression tokens>" groups, each with a name and an expression.
RECURSIVE RuleWalk(_, _, _, _)
RuleWalk(tokens, i, name, expression) ==
  IF i > Len(tokens) THEN name /\ expression
  ELSE IF tokens[i][Len(tokens[i])] = ":"
    THEN IF Len(tokens[i]) < 2 THEN FALSE
         ELSE IF (name \/ expression) /\ ~(name /\ expression) THEN FALSE
         ELSE RuleWalk(tokens, i + 1, TRUE, FALSE)
  ELSE RuleWalk(tokens, i + 1, name, TRUE)

\* ParseCFIRuleSet(rules_string, frame_info): whether the string parsed,
\* and the carrier with the string applied to it.  A carrier is the
\* sequence of the rule-strings applied to it.
ParseCFIRuleSet(rules_string, frame_info) ==
  [ok |-> RuleWalk(TokenizeAll(rules_string, {" ", CR, LF}), 1, FALSE, FALSE),
   frame_info |-> Append(frame_info, rules_string)]

\* Line 530 with < for <=: the delta at the frame's address left out.
DeltaKeys_Before(initial_base, address) ==
  SortedKeys({d.key : d \in {e \in cfi_delta_rules_ :
                               initial_base <= e.key /\ e.key < address}})

\* Lines 526-533: the keys of the delta rules walked, from
\* lower_bound(initial_base) while they are <= address.
DeltaKeys(initial_base, address) ==
  SortedKeys({d.key : d \in {e \in cfi_delta_rules_ :
                               initial_base <= e.key /\ e.key <= address}})

\* Line 531, for each key walked.
RECURSIVE ApplyDeltas(_, _, _)
ApplyDeltas(keys, i, rules) ==
  IF i > Len(keys) THEN rules
  ELSE ApplyDeltas(keys, i + 1,
         ParseCFIRuleSet(EntryAt(cfi_delta_rules_, keys[i]), rules).frame_info)

\* Module::FindCFIFrameInfo: the CFIFrameInfo returned, or NULL.
FindCFIFrameInfo(fr) ==
  LET Parsed(address, initial, rules) ==
        IF ~rules.ok THEN NULL
        ELSE [null |-> FALSE,
              rules |-> ApplyDeltas(DeltaKeys(initial.base, address), 1,
                                    rules.frame_info)]
      Body(address, initial) ==
        IF ~initial.found THEN NULL
        ELSE Parsed(address, initial, ParseCFIRuleSet(initial.entry, <<>>))
      At(address) == Body(address, RetrieveRange(cfi_initial_rules_, address))
  IN At(ModuleRelative(fr))


\* WindowsFrameInfo(): the carrier as constructed, nothing in it valid.
NewWindowsFrameInfo ==
  [type_ |-> STACK_INFO_UNKNOWN, valid |-> VALID_NONE, prolog_size |-> 0,
   epilog_size |-> 0, parameter_size |-> 0, saved_register_size |-> 0,
   local_size |-> 0, max_stack_size |-> 0, program_string |-> <<>>]

\* Lines 472-475 with the two containers in the other order.
StackInfo_FPOFirst(address) ==
  LET Body(fpo) ==
        IF fpo.found THEN fpo
        ELSE RetrieveRange(windows_frame_info_[STACK_INFO_FRAME_DATA],
                           address)
  IN Body(RetrieveRange(windows_frame_info_[STACK_INFO_FPO], address))

\* Lines 472-475: FRAME_DATA is preferred, FPO is the fallback.
StackInfo(address) ==
  LET Body(frame_data) ==
        IF frame_data.found THEN frame_data
        ELSE RetrieveRange(windows_frame_info_[STACK_INFO_FPO], address)
  IN Body(RetrieveRange(windows_frame_info_[STACK_INFO_FRAME_DATA], address))

\* Module::FindWindowsFrameInfo: the carrier returned, or NULL.  Where a
\* PUBLIC symbol applies (lines 495-500) the parameter size goes into a
\* carrier that is destroyed on return: the call returns NULL.
FindWindowsFrameInfo(fr) ==
  LET Func(address, function) ==
        IF function.found
           /\ InFunction(address, function.base, function.size)
        THEN [null |-> FALSE,
              info |-> [NewWindowsFrameInfo EXCEPT
                          !.parameter_size = function.entry.parameter_size,
                          !.valid = VALID_PARAMETER_SIZE]]
        ELSE NULL
      Body(address, frame_info) ==
        IF frame_info.found THEN [null |-> FALSE, info |-> frame_info.entry]
        ELSE Func(address, RetrieveNearestRange(functions_, address))
      At(address) == Body(address, StackInfo(address))
  IN At(ModuleRelative(fr))
(***************************************************************************)
(* Inputs: the buffers loaded and the instructions looked up.              *)
(***************************************************************************)
RECURSIVE ToHex(_)
ToHex(n) == IF n < 16 THEN <<HexChars[n + 1]>>
            ELSE ToHex(n \div 16) \o <<HexChars[(n % 16) + 1]>>

FuncRecord(address, size, name) ==
  <<"F", "U", "N", "C", " ">> \o ToHex(address) \o <<" ">> \o ToHex(size)
    \o <<" ", "8", " ">> \o name

PublicRecord(address, name) ==
  <<"P", "U", "B", "L", "I", "C", " ">> \o ToHex(address)
    \o <<" ", "4", " ">> \o name

LineRecord(address, size, line) ==
  ToHex(address) \o <<" ">> \o ToHex(size) \o <<" ">> \o line \o <<" ", "1">>

CfiInit(address, size, rules) ==
  <<"S", "T", "A", "C", "K", " ", "C", "F", "I", " ", "I", "N", "I", "T", " ">>
    \o ToHex(address) \o <<" ">> \o ToHex(size) \o <<" ">> \o rules

CfiDelta(address, rules) ==
  <<"S", "T", "A", "C", "K", " ", "C", "F", "I", " ">> \o ToHex(address)
    \o <<" ">> \o rules

\* The top of the address space: a function at ULLONG_MAX - 4 of size 4.
TopBase == ULLONG_MAX - 4

\* f with g nested in it, h crossing f, an empty z, t at the top.
FuncRecords ==
  {FuncRecord(16, 32, <<"f">>), FuncRecord(24, 8, <<"g">>),
   FuncRecord(40, 16, <<"h">>), FuncRecord(64, 0, <<"z">>),
   FuncRecord(TopBase, 4, <<"t">>)}

\* o at address 0, p below every function, q past g, r at the base of h.
PublicRecords ==
  {PublicRecord(0, <<"o">>), PublicRecord(8, <<"p">>),
   PublicRecord(36, <<"q">>), PublicRecord(40, <<"r">>)}

\* A line at the start of f, and one past every function above.
LineRecords ==
  {LineRecord(16, 8, <<"4", "2">>), LineRecord(64, 8, <<"7">>)}

FileRecords == {<<"F", "I", "L", "E", " ", "1", " ", "a", ".", "c">>}

\* A STACK record cut short after its platform token.
StackRecords == {<<"S", "T", "A", "C", "K", " ", "C", "F", "I">>}

Records ==
  FuncRecords \cup PublicRecords \cup LineRecords \cup FileRecords
    \cup StackRecords

\* STACK WIN <type> <rva> <code_size> <prolog> <epilog> <parameter_size>
\* <saved_register_size> <local_size> <max_stack_size> 1 <program>
WinRecord(type, rva, code_size, parameter_size) ==
  <<"S", "T", "A", "C", "K", " ", "W", "I", "N", " ">> \o ToHex(type)
    \o <<" ">> \o ToHex(rva) \o <<" ">> \o ToHex(code_size)
    \o <<" ", "1", " ", "2", " ">> \o ToHex(parameter_size)
    \o <<" ", "3", " ", "4", " ", "5", " ", "1", " ", "$", "T">>

\* FRAME_DATA over [16,32), FPO over [16,48) and over [24,32), a record of
\* a type past the last, the function h = [40,56) and the symbol p at 8.
WinRecords ==
  {WinRecord(STACK_INFO_FRAME_DATA, 16, 16, 12),
   WinRecord(STACK_INFO_FPO, 16, 32, 20),
   WinRecord(STACK_INFO_FPO, 24, 8, 24),
   WinRecord(STACK_INFO_LAST, 16, 16, 28),
   FuncRecord(40, 16, <<"h">>), PublicRecord(8, <<"p">>)}

\* f, h crossing f, an empty z, v running past the top of the address
\* space, a FUNC record with no fields, a PUBLIC and two line records.
LoaderRecords ==
  {FuncRecord(16, 32, <<"f">>), FuncRecord(40, 16, <<"h">>),
   FuncRecord(64, 0, <<"z">>), FuncRecord(TopBase, 8, <<"v">>),
   <<"F", "U", "N", "C", " ", "x">>, PublicRecord(8, <<"p">>),
   LineRecord(16, 8, <<"4", "2">>), LineRecord(64, 8, <<"7">>)}

\* <type>@<size>@<name>@<op>:<v1>: a parameter of an int of 4 bytes, at the
\* address v1.
ParamText(name, address) ==
  <<"i", "n", "t", "@", "4", "@">> \o name \o <<"@">>
    \o ToHex(DW_OP.addr) \o <<":">> \o ToHex(address)

\* The n-th parameter name.
ParamName(n) == <<<<"a">>, <<"b">>, <<"c">>, <<"d">>>>[n]

\* a#b#c for the texts ts.
RECURSIVE JoinParams(_)
JoinParams(ts) ==
  IF Len(ts) = 1 THEN ts[1] ELSE ts[1] \o <<"#">> \o JoinParams(Tail(ts))

\* FUNC 10 20 8 f#<n>#<parameters>: f with its parameters at the addresses
\* as.
ParamFuncRecord(as) ==
  FuncRecord(16, 32, <<"f">>) \o <<"#">> \o ToHex(Len(as)) \o <<"#">>
    \o JoinParams([k \in 1..Len(as) |-> ParamText(ParamName(k), as[k])])

\* Where a parameter may be: at 0 (no location), at a readable address
\* (64 or 72) or at one that cannot be read (80).
ParamAddrs == {0, 64, 72, 80}

\* f with one to MaxParams parameters.
ParamRecords ==
  {ParamFuncRecord(as) :
     as \in UNION {[1..k -> ParamAddrs] : k \in 1..MaxParams}}

\* Rule-strings: one that parses for an INIT record, one that does not,
\* and the one of the delta at each address.
InitRules == <<".", "c", "f", "a", ":", " ", "s", "p">>
BadRules == <<"x">>
DeltaRules(address) == <<"r">> \o ToHex(address) \o <<":", " ", "s", "p">>

\* An INIT range with delta rules below it, at its base and inside it,
\* and next to it an INIT range whose rules do not parse.
CfiRecords ==
  {CfiInit(16, 32, InitRules), CfiInit(48, 8, BadRules),
   CfiDelta(8, DeltaRules(8)), CfiDelta(16, DeltaRules(16)),
   CfiDelta(24, DeltaRules(24)), CfiDelta(40, DeltaRules(40))}

\* Pieces of buffers with null bytes in them.
NullPieces ==
  {<<NUL>>, <<LF>>, FuncRecord(1, 1, <<"f">>), FuncRecord(2, 1, <<"g">>)}

RECURSIVE Concat(_)
Concat(ss) == IF ss = <<>> THEN <<>> ELSE Head(ss) \o Concat(Tail(ss))

\* The buffers of up to n pieces of P, each piece followed by `end`.
Buffers(P, n, end) ==
  {Concat([i \in 1..Len(ps) |-> ps[i] \o end]) :
     ps \in UNION {[1..k -> P] : k \in 0..n}}

\* n lines that are no record.
RECURSIVE ErrorLines(_)
ErrorLines(n) == IF n = 0 THEN <<>> ELSE <<"x", LF>> \o ErrorLines(n - 1)

\* Buffers with about kMaxErrorsBeforeBailing lines in error, with or
\* without a null byte in front and a FUNC record behind.
ErrorBuffers ==
  {<<>>} \cup
  {front \o ErrorLines(n) \o back :
     front \in {<<>>, <<NUL>>},
     n \in (kMaxErrorsBeforeBailing - CapSlack)
             ..(kMaxErrorsBeforeBailing + CapSlack),
     back \in {<<>>, FuncRecord(16, 32, <<"f">>) \o <<LF>>}}

ModuleBases == {48}

QueryAddrs ==
  {0, 8, 16, 24, 31, 32, 36, 37, 40, 47, 48, 55, 56,
   TopBase - 1, TopBase, TopBase + 3, ULLONG_MAX}

\* An operation of a location program.
ArgLocInfo(op, locValue1) ==
  [op |-> op, locValue1 |-> locValue1, locValue2 |-> 0]

\* Operations that push a value, the stack operations, deref, and three
\* that the evaluator does not support: xderef, plus and nop.
Operations ==
  {ArgLocInfo(DW_OP.lit0 + 1, 0), ArgLocInfo(DW_OP.addr, 64),
   ArgLocInfo(DW_OP.reg0 + 2, 0), ArgLocInfo(DW_OP.fbreg, 8),
   ArgLocInfo(DW_OP.const1s, 128),
   ArgLocInfo(DW_OP.dup, 0), ArgLocInfo(DW_OP.drop, 0),
   ArgLocInfo(DW_OP.over, 0), ArgLocInfo(DW_OP.swap, 0),
   ArgLocInfo(DW_OP.rot, 0), ArgLocInfo(DW_OP.pick, 1),
   ArgLocInfo(DW_OP.deref, 0), ArgLocInfo(DW_OP.xderef, 0),
   ArgLocInfo(DW_OP.plus, 0), ArgLocInfo(DW_OP.nop, 0)}

\* The location programs of up to MaxOps operations.
Programs == UNION {[1..k -> Operations] : k \in 0..MaxOps}

\* What val may hold before it is first assigned.
Indeterminate == {0, 99}

\* A memory view with the words at 64 and at 72 readable.
Words == (64 :> 7) @@ (72 :> 64)
Memories == {[null |-> FALSE, words |-> Words]}

\* The addresses at which Windows frame information is asked for.
WinQueryAddrs == {8, 16, 31, 32, 40, 47, 48, 55, 56}

(***************************************************************************)
(* The callers of the loaded module: one lookup at a time, on a fresh      *)
(* frame, which the caller drops before the next.                          *)
(***************************************************************************)
Call_LookupAddress ==
  /\ pc = "done"
  /\ call = "none"
  /\ \E base \in ModuleBases, a \in QueryAddrs,
        indeterminate \in IF memory = NULL THEN {0} ELSE Indeterminate :
       frame' = LookupAddress(memory, NewFrame(Wrap(base + a), base),
                              indeterminate)
  /\ call' = "LookupAddress"
  /\ UNCHANGED <<input, loader, containers, is_corrupt_, cfi_info,
                 windows_info, memory, evaluation>>

Call_FindCFIFrameInfo ==
  /\ pc = "done"
  /\ call = "none"
  /\ \E base \in ModuleBases, a \in QueryAddrs :
       /\ frame' = NewFrame(Wrap(base + a), base)
       /\ cfi_info' = FindCFIFrameInfo(NewFrame(Wrap(base + a), base))
  /\ call' = "FindCFIFrameInfo"
  /\ UNCHANGED <<input, loader, containers, is_corrupt_, windows_info,
                 memory, evaluation>>

Call_FindWindowsFrameInfo ==
  /\ pc = "done"
  /\ call = "none"
  /\ \E base \in ModuleBases, a \in WinQueryAddrs :
       /\ frame' = NewFrame(Wrap(base + a), base)
       /\ windows_info' = FindWindowsFrameInfo(NewFrame(Wrap(base + a), base))
  /\ call' = "FindWindowsFrameInfo"
  /\ UNCHANGED <<input, loader, containers, is_corrupt_, cfi_info, memory,
                 evaluation>>

DropFrame ==
  /\ call # "none"
  /\ frame' = NULL
  /\ cfi_info' = NULL
  /\ windows_info' = NULL
  /\ call' = "none"
  /\ UNCHANGED <<input, loader, containers, is_corrupt_, memory, evaluation>>

(***************************************************************************)
(* A call of EvaluateDwarfExpression, one iteration of its loop at a time. *)
(***************************************************************************)
\* Lines 210-321: the iteration on loc[i].
Eval_Iteration ==
  /\ evaluation # NULL
  /\ evaluation.pc = "loop"
  /\ evaluation.i < Len(evaluation.loc)
  /\ LET Body(r) ==
           evaluation' =
             IF r.returned
             THEN [evaluation EXCEPT !.pc = "returned", !.value = 0]
             ELSE [evaluation EXCEPT !.s = r.s, !.val = r.val, !.i = @ + 1]
     IN Body(Iteration(frame, memory, Locals(evaluation.s, evaluation.val),
                       evaluation.loc[evaluation.i + 1]))
  /\ UNCHANGED <<input, loader, containers, is_corrupt_, frame, cfi_info,
                 windows_info, call, memory>>

\* Lines 324-326: the loop is through.
Eval_Return ==
  /\ evaluation # NULL
  /\ evaluation.pc = "loop"
  /\ evaluation.i = Len(evaluation.loc)
  /\ evaluation' = [evaluation EXCEPT
                      !.pc = "returned",
                      !.value = Top(Locals(evaluation.s, evaluation.val))]
  /\ UNCHANGED <<input, loader, containers, is_corrupt_, frame, cfi_info,
                 windows_info, call, memory>>

NextEval ==
  \/ Eval_Iteration
  \/ Eval_Return

Next ==
  \/ Load_Empty
  \/ Load_Prepare
  \/ Load_FirstToken
  \/ Load_Line
  \/ Load_Finish
  \/ Call_LookupAddress
  \/ Call_FindCFIFrameInfo
  \/ Call_FindWindowsFrameInfo
  \/ DropFrame

\* Any buffer of up to MaxRecords FILE, FUNC, PUBLIC, STACK and line
\* records.
Init == \E in \in Buffers(Records, MaxRecords, <<LF>>) : InitWith(in)

Spec == Init /\ [][Next]_vars

\* Any buffer of up to MaxRecords STACK CFI records.
InitCFI == \E in \in Buffers(CfiRecords, MaxRecords, <<LF>>) : InitWith(in)

SpecCFI == InitCFI /\ [][Next]_vars

\* Any buffer of up to MaxPieces null bytes, line ends and FUNC records.
InitNull == \E in \in Buffers(NullPieces, MaxPieces, <<>>) : InitWith(in)

SpecNull == InitNull /\ [][Next]_vars

\* Any buffer with about as many errors as the loader bears.
InitCap == \E in \in ErrorBuffers : InitWith(in)

SpecCap == InitCap /\ [][Next]_vars


\* Any buffer of up to MaxRecords STACK WIN, FUNC and PUBLIC records.
InitWin == \E in \in Buffers(WinRecords, MaxRecords, <<LF>>) : InitWith(in)

SpecWin == InitWin /\ [][Next]_vars

\* Any buffer of up to MaxRecords FUNC, PUBLIC and line records, some of
\* the FUNC records malformed or refused by functions_.
InitLoader ==
  \E in \in Buffers(LoaderRecords, MaxRecords, <<LF>>) : InitWith(in)

SpecLoader == InitLoader /\ [][Next]_vars

\* EvaluateDwarfExpression entered with any location program of up to
\* MaxOps operations.
InitEval ==
  /\ \E mem \in Memories : Constructed(<<>>, mem)
  /\ frame = NewFrame(0, 0)
  /\ \E loc \in Programs, indeterminate \in Indeterminate :
       evaluation = [null |-> FALSE, loc |-> loc, i |-> 0, s |-> <<>>,
                     val |-> indeterminate, pc |-> "loop", value |-> 0]

SpecEval == InitEval /\ [][NextEval]_vars

\* A buffer with one FUNC record that has parameters (or an empty
\* buffer), looked up by a caller that has a memory view.
InitParams ==
  /\ \E in \in Buffers(ParamRecords, 1, <<LF>>), mem \in Memories :
       Constructed(in, mem)
  /\ frame = NULL
  /\ evaluation = NULL

SpecParams == InitParams /\ [][Next]_vars
(***************************************************************************)
(* Properties.  Each is stated over the containers as the load left them,  *)
(* without the retrieval operators of the containers.                      *)
(***************************************************************************)

\* The frame of the call in flight was handed to LookupAddress.
LookedUp == call = "LookupAddress"

\* The module-relative address of the call in flight.
QueryAddress == ModuleRelative(frame)

\* The frame of the call in flight, before the call.
Untouched == NewFrame(frame.instruction, frame.module_base)

\* The stored ranges of map with the greatest base at or below a.
Nearest(map, a) ==
  {r \in map : r.base <= a /\ \A s \in map : s.base <= a => s.base <= r.base}

\* The stored public symbols with the greatest address at or below a.
NearestPublic(a) ==
  {p \in public_symbols_ :
     p.key <= a /\ \A q \in public_symbols_ : q.key <= a => q.key <= p.key}

\* a lies in [r.base, r.base + r.size), in unbounded arithmetic.
Within(r, a) == r.base <= a /\ a < r.base + r.size

\* fr names function r of a module loaded at fr.module_base.
Names(fr, r) ==
  /\ fr.function_name = r.entry.name
  /\ fr.function_base = (fr.module_base + r.base) % Modulus

\* C1: whenever some stored FUNC range covers the address looked up,
\* LookupAddress leaves in the frame the name of a FUNC covering it and
\* module_base + that function's address.  (It does not: of nested
\* functions only the one with the greatest base is consulted.)
C1_CoveringFunctionResolved ==
  LookedUp =>
    ((\E r \in functions_ : Within(r, QueryAddress))
       => \E g \in functions_ : Within(g, QueryAddress) /\ Names(frame, g))

\* C2: when the nearest FUNC (greatest base <= a) does not cover a, the
\* frame gets the name and address of the PUBLIC symbol with the greatest
\* address <= a exactly when there is no nearest function or the symbol's
\* address is strictly greater than its base; otherwise no field is set;
\* the source file, line and line base stay unset either way.
C2_Accepted(p, near) == near = {} \/ \A r \in near : p.key > r.base

C2_Rule(a, near, pubs) ==
  (\A r \in near : ~Within(r, a)) =>
    IF \E p \in pubs : C2_Accepted(p, near)
    THEN \E p \in pubs :
           frame = [Untouched EXCEPT
                      !.function_name = p.entry.name,
                      !.function_base = (frame.module_base + p.key) % Modulus]
    ELSE frame = Untouched

C2_PublicSymbolRule ==
  LookedUp =>
    C2_Rule(QueryAddress, Nearest(functions_, QueryAddress),
            NearestPublic(QueryAddress))

\* C2 happens: past g, which is the nearest function and does not cover
\* the address, the public symbol q is taken.
C2_Witness ==
  /\ LookedUp
  /\ frame.function_name = <<"q">>
  /\ \E r \in functions_ : r.base <= QueryAddress /\ ~Within(r, QueryAddress)

\* The rule-strings FindCFIFrameInfo is to apply for INIT range r at a.
C3_Composition(r, a) ==
  LET Walk(keys) ==
        <<r.entry>> \o [i \in 1..Len(keys) |-> EntryAt(cfi_delta_rules_, keys[i])]
  IN Walk(SortedKeys({d.key : d \in {e \in cfi_delta_rules_ :
                                       r.base <= e.key /\ e.key <= a}}))

C3_Covering(a) == {r \in cfi_initial_rules_ : Within(r, a)}

\* C3 as stated: FindCFIFrameInfo returns none when no INIT range covers
\* a, and otherwise a rule set made of the covering INIT rule-string
\* followed by exactly the delta rule-strings with initial_base <= key <= a,
\* in ascending key order.
C3_AsStated ==
  call = "FindCFIFrameInfo" =>
    IF C3_Covering(QueryAddress) = {} THEN cfi_info = NULL
    ELSE /\ cfi_info # NULL
         /\ \E r \in C3_Covering(QueryAddress) :
              cfi_info.rules = C3_Composition(r, QueryAddress)

\* C3, amended: FindCFIFrameInfo returns none when no INIT range covers a
\* or when the covering INIT rule-string does not parse; otherwise the
\* rule-strings applied are the covering INIT rule-string and then exactly
\* the delta rule-strings with initial_base <= key <= a, ascending.
C3_CFIComposition ==
  call = "FindCFIFrameInfo" =>
    IF C3_Covering(QueryAddress) = {} THEN cfi_info = NULL
    ELSE \E r \in C3_Covering(QueryAddress) :
           IF ParseCFIRuleSet(r.entry, <<>>).ok
           THEN /\ cfi_info # NULL
                /\ cfi_info.rules = C3_Composition(r, QueryAddress)
           ELSE cfi_info = NULL

\* C3 happens: an INIT rule-string and the two deltas up to the address
\* were composed.
C3_Witness ==
  /\ call = "FindCFIFrameInfo"
  /\ cfi_info # NULL
  /\ Len(cfi_info.rules) = 3
  /\ cfi_info.rules[1] = InitRules
  /\ cfi_info.rules[2] # cfi_info.rules[3]

\* C4: LookupAddress takes the nearest FUNC range [base, base + size) for
\* the address a exactly when base <= a < base + size in unbounded
\* arithmetic: base + size - 1 is inside, base + size is outside, also at
\* the top of the address space.
C4_OverflowSafeCoverage ==
  LookedUp =>
    \A r \in Nearest(functions_, QueryAddress) :
      Names(frame, r) <=> Within(r, QueryAddress)

\* C4 happens: t is at ULLONG_MAX - 4 with size 4; ULLONG_MAX - 1, its
\* last address, resolved to it.
C4_Witness ==
  /\ LookedUp
  /\ QueryAddress = ULLONG_MAX - 1
  /\ frame.function_name = <<"t">>
  /\ \E r \in functions_ : r.base + r.size = ULLONG_MAX

\* C5: after the load every line held in a function's line container
\* lies inside the function's range.  (It need not: a line record goes
\* to the current function whatever its address.)
C5_LinesInsideFunction ==
  pc = "done" =>
    \A r \in functions_ : \A l \in r.entry.lines :
      r.base <= l.base /\ l.base + l.size <= r.base + r.size

\* C6: LoadMapFromMemory returns true for every buffer, and is_corrupt_
\* is then true exactly when the load counted an error.
C6_LoadSucceeds ==
  pc = "done" =>
    /\ result = Returned(TRUE)
    /\ is_corrupt_ <=> (num_errors > 0)

\* C6 happens: a load that counted errors returned, and the module is
\* corrupt.
C6_Witness ==
  /\ pc = "done"
  /\ result = Returned(TRUE)
  /\ num_errors > 0
  /\ is_corrupt_
  /\ functions_ # {}

\* C7 as stated: once kMaxErrorsBeforeBailing errors have been counted no
\* further line is processed.
C7_AsStated ==
  [][num_errors >= kMaxErrorsBeforeBailing => line_number' = line_number]_vars

\* C7, amended: the load goes on to the next line while no more than
\* kMaxErrorsBeforeBailing errors have been counted, and leaves the loop
\* only upon the error after those; from then on no line is processed and
\* nothing is stored or counted.
C7_ErrorCap ==
  [][/\ num_errors > kMaxErrorsBeforeBailing
          => /\ line_number' = line_number
             /\ containers' = containers
             /\ num_errors' = num_errors
     /\ pc' = "bail" => num_errors' = kMaxErrorsBeforeBailing + 1]_vars

\* C7 happens: the loop was left with lines still in the buffer.
C7_Witness ==
  /\ pc = "bail"
  /\ num_errors > kMaxErrorsBeforeBailing
  /\ save_ptr < Len(memory_buffer)
  /\ memory_buffer[save_ptr] # NUL

\* A FUNC record, a line end, a null byte and a second FUNC record.
C8_Buffer ==
  FuncRecord(1, 1, <<"f">>) \o <<LF, NUL>> \o FuncRecord(2, 1, <<"g">>)
    \o <<LF>>

C8_StoredNames == {r.entry.name : r \in functions_}

\* C8 as stated: loading such a buffer rewrites the null, counts an
\* error, sets is_corrupt_ and stores both functions.
C8_AsStated ==
  (pc = "done" /\ input = C8_Buffer) =>
    /\ num_errors >= 1
    /\ is_corrupt_
    /\ C8_StoredNames = {<<"f">>, <<"g">>}

\* C8, amended: loading such a buffer rewrites the null, which leaves the
\* second record starting with '_': it is not taken for a FUNC record but
\* for a line record of the first function, and fails as one.  Two errors
\* are counted, is_corrupt_ is set and only the first function is stored.
C8_NullBeforeRecord ==
  (pc = "done" /\ input = C8_Buffer) =>
    /\ num_errors = 2
    /\ is_corrupt_
    /\ C8_StoredNames = {<<"f">>}
    /\ \A r \in functions_ : r.entry.lines = {}
    /\ \A i \in 1..Len(input) :
         input[i] = NUL => memory_buffer[i] = "_"

\* C8 happens: such a buffer was loaded.
C8_Witness ==
  /\ pc = "done"
  /\ input = C8_Buffer
  /\ line_number = 2
  /\ functions_ # {}

\* The buffer as LoadMapFromMemory reads it: its last byte is the
\* terminator.
C9_Read == [input EXCEPT ![Len(input)] = NUL]

\* The null bytes of t before its trailing run of nulls.
C9_Interior(t) ==
  {i \in 1..Len(t) : t[i] = NUL /\ \E j \in i..Len(t) : t[j] # NUL}

C9_Rule(t) ==
  /\ memory_buffer = [i \in 1..Len(t) |->
                        IF i \in C9_Interior(t) THEN "_" ELSE t[i]]
  /\ num_errors = IF C9_Interior(t) = {} THEN 0 ELSE 1

CurrentLine == SubSeq(memory_buffer, buffer.b, buffer.e - 1)

\* C10: handling a well-formed PUBLIC record with address 0 leaves the
\* public symbols and the error count as they were; no public symbol is
\* ever stored at address 0.
C10_PublicAtZero ==
  [][/\ (pc = "loop" /\ buffer # NULL
           /\ CurrentLine = PublicRecord(0, <<"o">>))
          => /\ public_symbols_' = public_symbols_
             /\ num_errors' = num_errors
     /\ \A p \in public_symbols_' : p.key # 0]_vars

\* C10 happens: a buffer with a PUBLIC record at address 0 and one at
\* another address was loaded; only the other is stored, and the module
\* is not corrupt.
C10_Witness ==
  /\ pc = "done"
  /\ input = PublicRecord(8, <<"p">>) \o <<LF>>
               \o PublicRecord(0, <<"o">>) \o <<LF>>
  /\ line_number = 2
  /\ {p.key : p \in public_symbols_} = {8}
  /\ ~is_corrupt_


(***************************************************************************)
(* FindWindowsFrameInfo                                                    *)
(***************************************************************************)
\* The carriers of the STACK WIN records of a type whose range covers a.
CoveringInfo(type, a) ==
  {r.entry : r \in {s \in windows_frame_info_[type] : Within(s, a)}}

\* info holds the parameter size of function r, flagged valid, and nothing
\* else.
OnlyParameterSize(info, r) ==
  /\ info.parameter_size = r.entry.parameter_size
  /\ info.valid = VALID_PARAMETER_SIZE
  /\ info.type_ = STACK_INFO_UNKNOWN
  /\ info.prolog_size = 0 /\ info.epilog_size = 0
  /\ info.saved_register_size = 0 /\ info.local_size = 0
  /\ info.max_stack_size = 0 /\ info.program_string = <<>>

\* C11: FindWindowsFrameInfo at address a returns a copy of a FRAME_DATA
\* carrier covering a if one exists, else a copy of an FPO carrier covering
\* a, else, if the nearest FUNC covers a, a carrier holding only that
\* function's parameter size with the parameter-size validity flag; in
\* every other case, also when a PUBLIC symbol applies to a, it returns
\* none.
C11_WindowsFrameInfo ==
  LET Body(a) ==
        IF CoveringInfo(STACK_INFO_FRAME_DATA, a) # {}
          THEN /\ ~windows_info.null
               /\ windows_info.info \in CoveringInfo(STACK_INFO_FRAME_DATA, a)
        ELSE IF CoveringInfo(STACK_INFO_FPO, a) # {}
          THEN /\ ~windows_info.null
               /\ windows_info.info \in CoveringInfo(STACK_INFO_FPO, a)
        ELSE IF \E r \in Nearest(functions_, a) : Within(r, a)
          THEN /\ ~windows_info.null
               /\ \E r \in Nearest(functions_, a) :
                    Within(r, a) /\ OnlyParameterSize(windows_info.info, r)
        ELSE windows_info = NULL
  IN call = "FindWindowsFrameInfo" => Body(QueryAddress)

\* A call at an address that both a FRAME_DATA and an FPO record cover,
\* answered with the FRAME_DATA carrier.
C11_Witness ==
  /\ call = "FindWindowsFrameInfo"
  /\ CoveringInfo(STACK_INFO_FRAME_DATA, QueryAddress) # {}
  /\ CoveringInfo(STACK_INFO_FPO, QueryAddress) # {}
  /\ ~windows_info.null
  /\ windows_info.info.type_ = STACK_INFO_FRAME_DATA

(***************************************************************************)
(* FUNC records refused by functions_, and line records                    *)
(***************************************************************************)
\* The lines of a buffer, split at its line ends.
RECURSIVE SplitLines(_, _)
SplitLines(in, cur) ==
  IF in = <<>> THEN (IF cur = <<>> THEN <<>> ELSE <<cur>>)
  ELSE IF Head(in) = LF THEN <<cur>> \o SplitLines(Tail(in), <<>>)
  ELSE SplitLines(Tail(in), Append(cur, Head(in)))

IsFunc(l) == HasPrefix(l, <<"F", "U", "N", "C", " ">>)
IsPublic(l) == HasPrefix(l, <<"P", "U", "B", "L", "I", "C", " ">>)
IsLineRecord(l) ==
  /\ ~IsFunc(l) /\ ~IsPublic(l)
  /\ ~HasPrefix(l, <<"F", "I", "L", "E", " ">>)
  /\ ~HasPrefix(l, <<"S", "T", "A", "C", "K", " ">>)
  /\ ~HasPrefix(l, <<"M", "O", "D", "U", "L", "E", " ">>)
  /\ ~HasPrefix(l, <<"I", "N", "F", "O", " ">>)

\* Ranges [b1, b1+s1) and [b2, b2+s2) overlap and neither holds the other.
Overlapping(b1, s1, b2, s2) ==
  /\ b1 < b2 + s2 /\ b2 < b1 + s1
  /\ ~(b1 <= b2 /\ b2 + s2 <= b1 + s1)
  /\ ~(b2 <= b1 /\ b1 + s1 <= b2 + s2)

\* FUNC record fn cannot be inserted into the stored functions fns: zero
\* size, base+size overflow, or crossing a stored range.
Refused(fn, fns) ==
  \/ fn.size = 0
  \/ fn.address + fn.size > Modulus
  \/ \E r \in fns : Overlapping(r.base, r.size, fn.address, fn.size)

\* The last FUNC or PUBLIC record among the first k lines of L; 0 if none.
RECURSIVE LastFuncOrPublic(_, _)
LastFuncOrPublic(L, k) ==
  IF k = 0 THEN 0
  ELSE IF IsFunc(L[k]) \/ IsPublic(L[k]) THEN k
  ELSE LastFuncOrPublic(L, k - 1)

\* Stored function r was built from FUNC record fn.
BuiltFrom(r, fn) ==
  fn.ok /\ r.base = fn.address /\ r.size = fn.size /\ r.entry.name = fn.name

\* Stored line l was built from line record ln.
LineFrom(l, ln) ==
  /\ ln.ok /\ l.base = ln.address /\ l.size = ln.size
  /\ l.entry.line = ln.line_number

\* Line l of stored function r comes from a line record among the first k
\* lines of L whose last FUNC or PUBLIC record before it is the FUNC
\* record of r, one that functions_ does not refuse.
Accounted(L, k, r, l) ==
  \E j \in 1..k :
    /\ IsLineRecord(L[j])
    /\ LineFrom(l, SymbolParseHelper_ParseLine(L[j]))
    /\ LET Func(i) ==
             /\ i > 0
             /\ IsFunc(L[i])
             /\ BuiltFrom(r, SymbolParseHelper_ParseFunction(L[i]))
             /\ ~Refused(SymbolParseHelper_ParseFunction(L[i]), functions_)
       IN Func(LastFuncOrPublic(L, j - 1))

\* Of the first k lines of L, no FUNC record that functions_ refuses has
\* its name stored, and every stored line is accounted for.
Discarded(L, k) ==
  /\ \A i \in 1..k :
       LET Body(fn) ==
             (fn.ok /\ Refused(fn, functions_))
               => \A r \in functions_ : r.entry.name # fn.name
       IN IsFunc(L[i]) => Body(SymbolParseHelper_ParseFunction(L[i]))
  /\ \A r \in functions_ : \A l \in r.entry.lines : Accounted(L, k, r, l)

\* The loop turn on a well-formed FUNC record that functions_ refuses
\* leaves functions_ as it was.
RefusedKeepsStored ==
  LET Body(fn) ==
        (fn.ok /\ Refused(fn, functions_)) => functions_' = functions_
  IN (pc = "loop" /\ buffer # NULL /\ IsFunc(CurrentLine))
       => Body(SymbolParseHelper_ParseFunction(CurrentLine))

\* C13: a well-formed FUNC record that cannot be inserted into functions_
\* (zero size, base+size overflow, crossing a stored range) leaves the
\* stored functions unchanged; its name is never stored, and the line
\* records that follow it up to the next FUNC or PUBLIC record are in no
\* stored function: every stored line follows the FUNC record of the
\* function that holds it, with no FUNC or PUBLIC record in between.
C13_RefusedFunctionDiscarded ==
  /\ []((pc \in {"loop", "done"})
          => Discarded(SplitLines(input, <<>>), line_number))
  /\ [][RefusedKeepsStored]_vars

\* C13 happens: f, then h crossing f, then a line record: only f is
\* stored, and it holds no line.
C13_Witness ==
  /\ pc = "done"
  /\ input = FuncRecord(16, 32, <<"f">>) \o <<LF>>
               \o FuncRecord(40, 16, <<"h">>) \o <<LF>>
               \o LineRecord(16, 8, <<"4", "2">>) \o <<LF>>
  /\ line_number = 3
  /\ {r.entry.name : r \in functions_} = {<<"f">>}
  /\ \A r \in functions_ : r.entry.lines = {}
  /\ num_errors = 0

\* functions_ with the lines of every function left out.
WithoutLines(fns) == {[r EXCEPT !.entry.lines = {}] : r \in fns}

\* The loop turn stores line record ln nowhere but in the line container
\* of the function built from FUNC record fn, which is the current one.
StoredOnlyIn(fn, ln) ==
  /\ cur_func' # NULL
  /\ cur_func'.ptr.name = fn.name
  /\ cur_func'.ptr.address = fn.address
  /\ cur_func'.ptr.size = fn.size
  /\ cur_func.ptr.lines \subseteq cur_func'.ptr.lines
  /\ \A l \in cur_func'.ptr.lines \ cur_func.ptr.lines : LineFrom(l, ln)
  /\ WithoutLines(functions_') = WithoutLines(functions_)
  /\ \A r \in functions_' :
       \/ r \in functions_
       \/ /\ BuiltFrom(r, fn)
          /\ r.entry.lines = cur_func'.ptr.lines
  /\ UNCHANGED <<files_, public_symbols_, windows_frame_info_,
                 cfi_initial_rules_, cfi_delta_rules_>>

\* The loop turn on a line record, i being the last FUNC or PUBLIC record
\* before it in L (0 if there is none).
LineTurn(L, i) ==
  LET Body(fn) ==
        IF ~fn.ok
        THEN /\ UNCHANGED containers
             /\ cur_func' = NULL
             /\ num_errors' = num_errors + 1
        ELSE StoredOnlyIn(fn, SymbolParseHelper_ParseLine(CurrentLine))
  IN Body(IF i = 0 \/ IsPublic(L[i]) THEN Fail
          ELSE SymbolParseHelper_ParseFunction(L[i]))

\* C14: a line record is stored only in the line container of the most
\* recent FUNC record that parsed, with no PUBLIC record in between; a
\* line record that arrives when there is no current function (before any
\* FUNC, after a PUBLIC, or after a FUNC that failed to parse) is stored
\* nowhere and adds exactly 1 to the error count.
C14_LineGoesToCurrentFunction ==
  [][(pc = "loop" /\ buffer # NULL /\ IsLineRecord(CurrentLine))
       => LineTurn(SplitLines(input, <<>>),
                   LastFuncOrPublic(SplitLines(input, <<>>), line_number))]_vars

\* C14 happens: f, a PUBLIC record, then a line record: the line is
\* counted as an error and f holds no line.
C14_Witness ==
  /\ pc = "done"
  /\ input = FuncRecord(16, 32, <<"f">>) \o <<LF>>
               \o PublicRecord(8, <<"p">>) \o <<LF>>
               \o LineRecord(16, 8, <<"4", "2">>) \o <<LF>>
  /\ line_number = 3
  /\ num_errors = 1
  /\ \A r \in functions_ : r.entry.lines = {}
  /\ {p.key : p \in public_symbols_} = {8}

(***************************************************************************)
(* EvaluateDwarfExpression                                                 *)
(***************************************************************************)
\* The evaluation is about to run the operation op.
About(op) ==
  /\ evaluation # NULL
  /\ evaluation.pc = "loop"
  /\ evaluation.i < Len(evaluation.loc)
  /\ evaluation.loc[evaluation.i + 1].op = op

\* The iteration returned 0.
Returns0 == evaluation'.pc = "returned" /\ evaluation'.value = 0

\* The iteration went on to the next operation with the stack t.
LeavesStack(t) == evaluation'.pc = "loop" /\ evaluation'.s = t

\* The standard effect of each stack operation on the stack s of depth n;
\* v is the operand of pick.
StandardEffect(s, n, v) ==
  /\ About(DW_OP.dup)
       => IF n = 0 THEN Returns0 ELSE LeavesStack(Append(s, s[n]))
  /\ About(DW_OP.drop)
       => IF n = 0 THEN Returns0 ELSE LeavesStack(SubSeq(s, 1, n - 1))
  /\ About(DW_OP.over)
       => IF n < 2 THEN Returns0 ELSE LeavesStack(Append(s, s[n - 1]))
  /\ About(DW_OP.swap)
       => IF n < 2 THEN Returns0
          ELSE LeavesStack(SubSeq(s, 1, n - 2) \o <<s[n], s[n - 1]>>)
  /\ About(DW_OP.rot)
       => IF n < 3 THEN Returns0
          ELSE LeavesStack(SubSeq(s, 1, n - 3) \o <<s[n], s[n - 2], s[n - 1]>>)
  /\ About(DW_OP.pick)
       => IF n = 0 \/ v > n - 1 THEN Returns0
          ELSE LeavesStack(Append(s, s[n - v]))

\* C15: each of dup, drop, over, swap, rot and pick v1 has exactly its
\* standard effect on the value stack and pushes nothing else (drop
\* shrinks the stack by one, dup, over and pick grow it by one, swap and
\* rot keep its depth), and each returns 0 on stack underflow or when the
\* index of pick is out of range.  (It does not hold: line 321 pushes val
\* after every operation.)
C15_StackOperations ==
  [][(evaluation # NULL /\ evaluation.pc = "loop"
        /\ evaluation.i < Len(evaluation.loc))
       => StandardEffect(evaluation.s, Len(evaluation.s),
                         evaluation.loc[evaluation.i + 1].locValue1)]_vars

\* The operations EvaluateDwarfExpression is said to support.
Supported ==
  ((DW_OP.reg0)..(DW_OP.reg31)) \cup ((DW_OP.breg0)..(DW_OP.breg31))
    \cup ((DW_OP.lit0)..(DW_OP.lit31))
    \cup {DW_OP.regX, DW_OP.fbreg, DW_OP.addr, DW_OP.deref,
          DW_OP.const1u, DW_OP.const2u, DW_OP.const4u, DW_OP.const8u,
          DW_OP.const1s, DW_OP.const2s, DW_OP.const4s, DW_OP.const8s,
          DW_OP.dup, DW_OP.drop, DW_OP.over, DW_OP.swap, DW_OP.rot,
          DW_OP.pick}

\* C16: EvaluateDwarfExpression returns 0 for every location program that
\* holds an operation outside the supported set, wherever the operation
\* stands.  (It does not hold: an operation that matches no test of the
\* chain is passed over and val is pushed.)
C16_UnsupportedReturns0 ==
  (/\ evaluation # NULL
   /\ evaluation.pc = "returned"
   /\ \E k \in 1..Len(evaluation.loc) : evaluation.loc[k].op \notin Supported)
    => evaluation.value = 0

(***************************************************************************)
(* ReadFuncParams                                                          *)
(***************************************************************************)
\* Parameter p lies at a non-zero address whose word the memory view can
\* read (its location program being the one operation addr).
Located(p) ==
  /\ p.typeSize > 0
  /\ Len(p.locs) = 1
  /\ p.locs[1].op = DW_OP.addr
  /\ p.locs[1].locValue1 # 0
  /\ p.locs[1].locValue1 \in DOMAIN memory.words

\* The names of the parameters ps.
ParamNames(ps) == [k \in 1..Len(ps) |-> ps[k].paramName]

\* The parameters of info that are located parameters of params.
LocatedIn(info, params) ==
  LET Test(q) ==
        \E k \in 1..Len(params) :
          params[k].paramName = q.paramName /\ Located(params[k])
  IN SelectSeq(info, Test)

\* C12: when LookupAddress resolves the frame to a function with several
\* parameters, a parameter whose address is 0 or whose word cannot be read
\* is the only one left out: every parameter at a non-zero readable
\* address is in frame.params, in declaration order.  (It does not hold:
\* a failed read at line 361 returns from ReadFuncParams.)
C12_OnlyFailedParamOmitted ==
  (call = "LookupAddress" /\ memory # NULL)
    => \A r \in functions_ :
         Names(frame, r)
           => ParamNames(LocatedIn(frame.params, r.entry.params))
                = ParamNames(SelectSeq(r.entry.params, Located))
=============================================================================
